---- MODULE Spec2Model ----
(***************************************************************************)
(* Model of home_energy_nyc/co2_utils.py: generate_curves (the curve       *)
(* builder, the pickle store and the calibration check) and                *)
(* calc_grid_co2_avg (the intensity estimator).                            *)
(*                                                                         *)
(* Floating point values are modelled as exact rationals [n, d] with d > 0,*)
(* plus the IEEE not-a-number value, written [n |-> 0, d |-> 0].  The only *)
(* divisions by zero the code can perform on the inputs modelled here are  *)
(* 0/0, so no infinity is needed.  Rounding is not modelled.               *)
(***************************************************************************)
EXTENDS Integers, Sequences, FiniteSets

\* ------------------------------------------------------------------ bounds
MaxPlants == 3      \* longest eGRID plant sheet
MaxHist == 1        \* longest reference (historical) fuel-mix series
MaxSeries == 2      \* longest fuel-mix series handed to the estimator

\* ------------------------------------------------------- float arithmetic
NaN == [n |-> 0, d |-> 0]

IsNaN(a) == a.d = 0

Abs(i) == IF i < 0 THEN -i ELSE i

RECURSIVE GCD(_, _)
GCD(a, b) == IF b = 0 THEN a ELSE GCD(b, a % b)

\* n / d as a float: 0/0 (and any x/0) is not a number
Frac(n, d) ==
    IF d = 0 THEN NaN
    ELSE LET g == GCD(Abs(n), Abs(d))
             s == IF d < 0 THEN -1 ELSE 1
         IN  [n |-> (s * n) \div g, d |-> (s * d) \div g]

F(i) == [n |-> i, d |-> 1]

FAdd(a, b) == IF IsNaN(a) \/ IsNaN(b) THEN NaN
              ELSE Frac(a.n * b.d + b.n * a.d, a.d * b.d)
FSub(a, b) == IF IsNaN(a) \/ IsNaN(b) THEN NaN
              ELSE Frac(a.n * b.d - b.n * a.d, a.d * b.d)
FMul(a, b) == IF IsNaN(a) \/ IsNaN(b) THEN NaN
              ELSE Frac(a.n * b.n, a.d * b.d)
FDiv(a, b) == IF IsNaN(a) \/ IsNaN(b) THEN NaN
              ELSE Frac(a.n * b.d, a.d * b.n)
\* comparisons with a NaN operand are false, as in IEEE 754
FLt(a, b) == ~IsNaN(a) /\ ~IsNaN(b) /\ a.n * b.d < b.n * a.d
FLe(a, b) == ~IsNaN(a) /\ ~IsNaN(b) /\ a.n * b.d <= b.n * a.d
FEq(a, b) == ~IsNaN(a) /\ ~IsNaN(b) /\ a.n * b.d = b.n * a.d

Range(s) == {s[i] : i \in DOMAIN s}

\* ------------------------------------------------------------ the inputs
DEFAULT_YEAR == 2019
Years == {DEFAULT_YEAR}

\* CAPFAC is held in tenths; NoCapFac is a missing (NaN) cell
NoCapFac == -1

\* eGRID primary fuel code -> NYISO fuel category; other codes stay as they are
fuel_epa_nyiso_map(code) ==
    CASE code = "BIOMASS" -> "Other Renewables"
      [] code = "COAL"    -> "Other Fossil Fuels"
      [] code = "GAS"     -> "Natural Gas"
      [] code = "HYDRO"   -> "Hydro"
      [] code = "NUCLEAR" -> "Nuclear"
      [] code = "OIL"     -> "Other Fossil Fuels"
      [] code = "OTHF"    -> "Other Fossil Fuels"
      [] code = "SOLAR"   -> "Other Renewables"
      [] code = "WIND"    -> "Wind"
      [] code = "OFSL"    -> "Other Fossil Fuels"
      [] OTHER            -> code

Row(id, ba, cf, cap, fuel, rate) ==
    [ORISPL |-> id, BACODE |-> ba, CAPFAC |-> cf, NAMEPCAP |-> cap,
     PLFUELCT |-> fuel, PLC2ERTA |-> rate]

\* rows of the PLNT sheet the model draws plant sheets from
PlantRows ==
    { Row(1, "NYIS", 9, 100, "GAS", 400),
      Row(2, "NYIS", 5, 50, "GAS", 600),
      Row(3, "NYIS", 0, 20, "GAS", 300),
      Row(4, "NYIS", 5, 0, "GAS", 400),
      Row(5, "NYIS", NoCapFac, 50, "GAS", 600),
      Row(6, "NYIS", 9, 0, "GAS", 500),
      Row(7, "NYIS", 5, 30, "HYDRO", 0),
      Row(8, "PJM", 9, 100, "GAS", 400) }

Injective(s) == \A i, j \in DOMAIN s : s[i] = s[j] => i = j

\* the rows the whole-system specification draws from: a two-point Natural
\* Gas curve, a plant of zero capacity tied with another, a Hydro plant
EstimatorRows == { r \in PlantRows : r.ORISPL \in {1, 2, 4, 7} }

\* plant sheets over the given rows: ORISPL is a unique key
PlantSheets(rows) ==
    UNION { { s \in [1..k -> rows] : Injective(s) } : k \in 0..MaxPlants }

\* columns of the NYISO fuel_mix_5m dataset the model keeps
RawColumns == {"Natural Gas", "Dual Fuel", "Hydro"}

RawSample(ng, df, hy) ==
    [c \in RawColumns |-> CASE c = "Natural Gas" -> ng
                            [] c = "Dual Fuel" -> df
                            [] OTHER -> hy]

HistSamples == { RawSample(40, 40, 30), RawSample(60, 0, 0) }

\* the sample the whole-system specification uses: peaks of 80 and 30 MW
EstimatorHistSamples == { RawSample(40, 40, 30) }

HistSeries(samples) == UNION { [1..k -> samples] : k \in 1..MaxHist }

\* Natural Gas := Natural Gas + Dual Fuel, then the Dual Fuel column is dropped
RollUp(series) ==
    [i \in DOMAIN series |->
        [c \in RawColumns \ {"Dual Fuel"} |->
            IF c = "Natural Gas"
            THEN series[i]["Natural Gas"] + series[i]["Dual Fuel"]
            ELSE series[i][c]]]

SeqMax(s) == CHOOSE m \in Range(s) : \A x \in Range(s) : x <= m

\* nyiso_fmix_max[v]: the largest MW value of column v in the year
nyiso_fmix_max(hist, v) == SeqMax([i \in DOMAIN hist |-> hist[i][v]])

\* ------------------------------------------------------ the curve builder
\* the PLNT sheet filtered to BACODE = NYIS, PLFUELCT mapped to NYISO categories
egrid_plnt_df(sheet) ==
    LET nyis == SelectSeq(sheet, LAMBDA r : r.BACODE = "NYIS")
    IN  [i \in DOMAIN nyis |->
            [nyis[i] EXCEPT !.PLFUELCT = fuel_epa_nyiso_map(nyis[i].PLFUELCT)]]

\* egrid_plnt_df[egrid_plnt_df['PLFUELCT'] == v]
SelectFuel(df, v) == SelectSeq(df, LAMBDA r : r.PLFUELCT = v)

\* the positions a descending sort may put next: those of the largest CAPFAC
\* left, or, when only missing values are left, the first of them
NextRanked(rows, left) ==
    LET valued == { i \in left : rows[i].CAPFAC # NoCapFac }
    IN  IF valued # {}
        THEN { i \in valued : \A j \in valued : rows[j].CAPFAC <= rows[i].CAPFAC }
        ELSE { i \in left : \A j \in left : i <= j }

\* the positions an ascending sort may put next
NextRankedAscending(rows, left) ==
    LET valued == { i \in left : rows[i].CAPFAC # NoCapFac }
    IN  IF valued # {}
        THEN { i \in valued : \A j \in valued : rows[i].CAPFAC <= rows[j].CAPFAC }
        ELSE { i \in left : \A j \in left : i <= j }

\* the rankings of the rows at positions left that a sort with the given
\* choice of next position can produce
RECURSIVE Orders(_, _, _)
Orders(rows, left, ascending) ==
    IF left = {} THEN { <<>> }
    ELSE UNION { { <<rows[i]>> \o rest : rest \in Orders(rows, left \ {i}, ascending) } :
                 i \in IF ascending THEN NextRankedAscending(rows, left)
                       ELSE NextRanked(rows, left) }

\* a sort that leaves out ascending=False: CAPFAC ascending, missing values last
SortValuesAscending(rows) == Orders(rows, DOMAIN rows, TRUE)

\* sort_values('CAPFAC', ascending=False) with the default kind='quicksort',
\* which is not a stable sort: rows with equal CAPFAC may come out in any
\* order.  Missing values are appended after the sort in record order.
SortValues(rows) == Orders(rows, DOMAIN rows, FALSE)

RECURSIVE SumTo(_, _)
SumTo(s, i) == IF i = 0 THEN 0 ELSE SumTo(s, i - 1) + s[i]

\* Series.cumsum
CumSum(s) == [i \in DOMAIN s |-> SumTo(s, i)]

\* fillna(0): the model's only missing cells are CAPFAC cells
FillNa(rows) ==
    [i \in DOMAIN rows |->
        IF rows[i].CAPFAC = NoCapFac THEN [rows[i] EXCEPT !.CAPFAC = 0]
        ELSE rows[i]]

\* drop(<index labels of the rows with CAPFAC == 0>)
DropZeroCapFac(rows) ==
    LET labels == { rows[i].ORISPL : i \in { k \in DOMAIN rows : rows[k].CAPFAC = 0 } }
    IN  SelectSeq(rows, LAMBDA r : r.ORISPL \notin labels)

\* Series.max(): the largest value, NaN for an empty series
CumCapMax(rows) ==
    IF Len(rows) = 0 THEN NaN
    ELSE F(SeqMax([i \in DOMAIN rows |-> rows[i].cum_cap]))

\* a rescaling with the ratio inverted: cum_cap * cum_cap.max() / peak
RescaleInverted(cum_cap, peak, mx) == FDiv(FMul(F(cum_cap), mx), F(peak))

\* cum_cap * nyiso_fmix_max[v] / cum_cap.max()
Rescale(cum_cap, peak, mx) == FDiv(FMul(F(cum_cap), F(peak)), mx)

\* cum_co2 / cum_cap
BlendedRate(cum_co2, cum_cap) == FDiv(F(cum_co2), F(cum_cap))

\* the rows of one category after the cumulative capacity column is added,
\* the missing cells are filled and the rows with CAPFAC == 0 are dropped
Retained(sorted) ==
    LET caps == CumSum([i \in DOMAIN sorted |-> sorted[i].NAMEPCAP])
        withCap == [i \in DOMAIN sorted |->
                      [ORISPL |-> sorted[i].ORISPL, CAPFAC |-> sorted[i].CAPFAC,
                       NAMEPCAP |-> sorted[i].NAMEPCAP, PLC2ERTA |-> sorted[i].PLC2ERTA,
                       cum_cap |-> caps[i]]]
    IN  DropZeroCapFac(FillNa(withCap))

\* one pass of the loop body of generate_curves for a ranked category
BuildCurve(sorted, peak) ==
    LET kept == Retained(sorted)
        cum_co2 == CumSum([i \in DOMAIN kept |-> kept[i].PLC2ERTA * kept[i].NAMEPCAP])
        mx == CumCapMax(kept)
    IN  [i \in DOMAIN kept |->
            [cum_cap |-> Rescale(kept[i].cum_cap, peak, mx),
             co2_rate |-> BlendedRate(cum_co2[i], kept[i].cum_cap)]]

\* ----------------------------------------------------------- the estimator
\* numpy's linear_search(key, arr, len, 1), 0-based result
RECURSIVE LinearSearch(_, _, _)
LinearSearch(key, arr, i) ==
    IF i < Len(arr) /\ FLe(arr[i + 1], key) THEN LinearSearch(key, arr, i + 1)
    ELSE i - 1

\* numpy's binary_search_with_guess, which is a linear search up to 4 points
\* and finds the same index on longer non-decreasing arrays
SearchIndex(key, arr) ==
    IF FLt(arr[Len(arr)], key) THEN Len(arr)
    ELSE IF FLt(key, arr[1]) THEN -1
    ELSE LinearSearch(key, arr, 1)

\* np.interp(x, xp, fp) for a scalar x and a non-empty xp; left and right
\* default to fp[0] and fp[-1].  numpy's retry "in the other direction" on a
\* NaN result cannot change a result here, where no value is infinite.
Interp(x, xp, fp) ==
    IF Len(xp) = 1 THEN fp[1]
    ELSE LET j == SearchIndex(x, xp)
         IN  IF j = -1 THEN fp[1]
             ELSE IF j = Len(xp) THEN fp[Len(xp)]
             ELSE IF j = Len(xp) - 1 THEN fp[j + 1]
             ELSE IF FEq(xp[j + 1], x) THEN fp[j + 1]
             ELSE LET slope == FDiv(FSub(fp[j + 2], fp[j + 1]), FSub(xp[j + 2], xp[j + 1]))
                  IN  FAdd(FMul(slope, FSub(x, xp[j + 1])), fp[j + 1])

CurveInterp(x, curve) ==
    Interp(F(x), [i \in DOMAIN curve |-> curve[i].cum_cap],
                 [i \in DOMAIN curve |-> curve[i].co2_rate])

\* x / 12: a MW reading on the 5-minute cadence as MWh
Mwh(x) == Frac(x, 12)

\* DataFrame column order of the NYISO pivot (alphabetical)
ColumnOrder == <<"Hydro", "Natural Gas", "Wind">>

ColumnsOf(df) == SelectSeq(ColumnOrder, LAMBDA c : c \in df.columns)

RECURSIVE FSum(_, _)
FSum(s, i) == IF i = 0 THEN F(0) ELSE FAdd(FSum(s, i - 1), s[i])

\* the exception of the first column whose lookup fails, "" if none does;
\* the lambda runs once per row, so a frame without rows looks nothing up
LookupFailure(df, curves) ==
    LET bad == SelectSeq(ColumnsOf(df),
                   LAMBDA c : c \notin DOMAIN curves \/ Len(curves[c]) = 0)
    IN  IF Len(df.rows) = 0 \/ Len(bad) = 0 THEN ""
        ELSE IF bad[1] \notin DOMAIN curves THEN "KeyError"
        ELSE "ValueError"

\* a row rate that guards the division: 0 where the total generation is zero
RowRateGuarded(row, cols, curves) ==
    LET total_mwh == FSum([k \in DOMAIN cols |-> Mwh(row[cols[k]])], Len(cols))
        co2_rate == FSum([k \in DOMAIN cols |->
                            FMul(Mwh(row[cols[k]]), CurveInterp(row[cols[k]], curves[cols[k]]))],
                         Len(cols))
    IN  IF total_mwh = F(0) THEN F(0) ELSE FDiv(co2_rate, total_mwh)

\* df['co2_rate'] / df['total_mwh'] for one row
RowRate(row, cols, curves) ==
    LET total_mwh == FSum([k \in DOMAIN cols |-> Mwh(row[cols[k]])], Len(cols))
        co2_rate == FSum([k \in DOMAIN cols |->
                            FMul(Mwh(row[cols[k]]), CurveInterp(row[cols[k]], curves[cols[k]]))],
                         Len(cols))
    IN  FDiv(co2_rate, total_mwh)

NoCurves == [v \in {} |-> <<>>]

Blob(kind, curves) == [kind |-> kind, curves |-> curves]
Absent == Blob("absent", NoCurves)

Result(kind, exc, logged, out, acc) ==
    [kind |-> kind, exc |-> exc, logged |-> logged, out |-> out, acc |-> acc]

Raised(exc) == Result("raised", exc, FALSE, <<>>, NaN)

\* an estimator that skips the columns it has no points for instead of failing
calc_grid_co2_avg_skipping(df, blob) ==
    IF blob.kind = "absent" THEN Raised("FileNotFoundError")
    ELSE IF blob.kind = "empty" THEN Result("none", "", TRUE, <<>>, NaN)
    ELSE IF blob.kind = "partial" THEN Raised("UnpicklingError")
    ELSE LET served == SelectSeq(ColumnsOf(df),
                           LAMBDA c : c \in DOMAIN blob.curves /\ Len(blob.curves[c]) > 0)
         IN  Result("ok", "", FALSE,
                    [i \in DOMAIN df.rows |-> RowRate(df.rows[i], served, blob.curves)],
                    NaN)

\* calc_grid_co2_avg(dataframe, year) against the blob of that year
calc_grid_co2_avg(df, blob) ==
    IF blob.kind = "absent" THEN Raised("FileNotFoundError")
    ELSE IF blob.kind = "empty" THEN Result("none", "", TRUE, <<>>, NaN)
    ELSE IF blob.kind = "partial" THEN Raised("UnpicklingError")
    ELSE IF LookupFailure(df, blob.curves) # "" THEN Raised(LookupFailure(df, blob.curves))
    ELSE Result("ok", "", FALSE,
                [i \in DOMAIN df.rows |-> RowRate(df.rows[i], ColumnsOf(df), blob.curves)],
                NaN)

\* ------------------------------------------------ the calibration check
\* BAC2ERTA of the NYIS row of the BA sheet (kg/MWh)
BAC2ERTA == 240

Frame(columns, rows) == [columns |-> columns, rows |-> rows]

\* the rolled-up reference series as the frame co2_historical_total passes on
HistFrame(hist) == Frame(RawColumns \ {"Dual Fuel"}, RollUp(hist))

\* df_mix.sum(axis=1) of one row
RowTotal(row) == SumTo([k \in 1..Len(ColumnOrder) |->
                          IF ColumnOrder[k] \in DOMAIN row THEN row[ColumnOrder[k]] ELSE 0],
                       Len(ColumnOrder))

\* np.sum of a pandas Series skips the missing values
RECURSIVE NanSum(_, _)
NanSum(s, i) ==
    IF i = 0 THEN F(0)
    ELSE IF IsNaN(s[i]) THEN NanSum(s, i - 1)
    ELSE FAdd(NanSum(s, i - 1), s[i])

\* co2_historical_total(year), given the rates calc_grid_co2_avg returned
co2_historical_total(rows, rates) ==
    LET total_mwh == [i \in DOMAIN rows |-> F(RowTotal(rows[i]))]
        weighted == [i \in DOMAIN rows |-> FMul(total_mwh[i], rates[i])]
    IN  FDiv(NanSum(weighted, Len(rows)), NanSum(total_mwh, Len(rows)))

\* lines 110-116: the accuracy ratio, or the exception the estimator raised
Calibration(hist, blob) ==
    LET est == calc_grid_co2_avg(HistFrame(hist), blob)
    IN  IF est.kind = "raised" THEN est
        ELSE Result("ok", "", FALSE, <<>>,
                    FDiv(co2_historical_total(RollUp(hist), est.out), F(BAC2ERTA)))

\* --------------------------------------------------------------- the state
VARIABLES
    egrid,        \* the PLNT sheet of the eGRID file
    fmix_hist,    \* the NYISO fuel_mix_5m dataset of the basis year
    store,        \* year -> the file database/co2_curves{year}.pickle
    co2_curves,   \* the dict the latest generate_curves call built
    ranked,       \* category -> its rows as that call's sort_values ordered them
    arg,          \* the latest call: operation, year, dataframe
    ret           \* its outcome

vars == <<egrid, fmix_hist, store, co2_curves, ranked, arg, ret>>

\* the fuel-mix frames handed to the estimator
FrameColumnSets == { {"Natural Gas", "Hydro"}, {"Natural Gas", "Hydro", "Wind"} }

FrameRow(ng, hy) == [c \in {"Natural Gas", "Hydro"} |-> IF c = "Hydro" THEN hy ELSE ng]

\* rows (MW per category): no generation, one category only, a mix; with a
\* Wind column, for which generate_curves builds no curve
FrameRows(columns) ==
    IF "Wind" \in columns
    THEN { [c \in columns |-> IF c = "Natural Gas" THEN 60 ELSE 0] }
    ELSE { FrameRow(0, 0), FrameRow(0, 20), FrameRow(60, 20) }

Frames ==
    UNION { { Frame(columns, rows) :
                rows \in UNION { [1..k -> FrameRows(columns)] : k \in 0..MaxSeries } } :
            columns \in FrameColumnSets }

NoFrame == Frame({}, <<>>)

Call(op, year, df) == [op |-> op, year |-> year, df |-> df]

\* no call made yet, no curve file written
Start ==
    /\ store = [y \in Years |-> Absent]
    /\ co2_curves = NoCurves
    /\ ranked = NoCurves
    /\ arg = Call("", DEFAULT_YEAR, NoFrame)
    /\ ret = Result("", "", FALSE, <<>>, NaN)

Init ==
    /\ egrid \in PlantSheets(EstimatorRows)
    /\ fmix_hist \in HistSeries(EstimatorHistSamples)
    /\ Start

\* the curve builder's inputs drawn from all the rows and samples
InitBuilder ==
    /\ egrid \in PlantSheets(PlantRows)
    /\ fmix_hist \in HistSeries(HistSamples)
    /\ Start

\* the categories generate_curves loops over: the columns left after the roll-up
Categories == RawColumns \ {"Dual Fuel"}

\* the outcomes of the sort_values calls of the loop, one per category
Rankings(sheet) ==
    LET df == egrid_plnt_df(sheet)
        gas == SortValues(SelectFuel(df, "Natural Gas"))
        hydro == SortValues(SelectFuel(df, "Hydro"))
    IN  { [v \in Categories |-> IF v = "Hydro" THEN h ELSE g] : g \in gas, h \in hydro }

\* lines 93-104
BuildCurves(rk, hist) ==
    [v \in DOMAIN rk |-> BuildCurve(rk[v], nyiso_fmix_max(RollUp(hist), v))]

\* generate_curves(year, egrid_file) running to its return or to the exception
\* the calibration's estimator call raises
GenerateCurves(year) ==
    \E rk \in Rankings(egrid) :
        LET curves == BuildCurves(rk, fmix_hist)
            blob == Blob("full", curves)
        IN  /\ co2_curves' = curves
            /\ ranked' = rk
            /\ store' = [store EXCEPT ![year] = blob]
            /\ arg' = Call("generate_curves", year, NoFrame)
            /\ ret' = Calibration(fmix_hist, blob)
            /\ UNCHANGED <<egrid, fmix_hist>>

\* lines 70-88 raise: a dataset cannot be read or lacks a column
GenerateCurvesReadError(year) ==
    /\ arg' = Call("generate_curves", year, NoFrame)
    /\ ret' = Raised("KeyError")
    /\ UNCHANGED <<egrid, fmix_hist, store, co2_curves, ranked>>

\* line 106 raises: the file cannot be opened for writing
GenerateCurvesOpenError(year) ==
    \E rk \in Rankings(egrid) :
        /\ co2_curves' = BuildCurves(rk, fmix_hist)
        /\ ranked' = rk
        /\ arg' = Call("generate_curves", year, NoFrame)
        /\ ret' = Raised("OSError")
        /\ UNCHANGED <<egrid, fmix_hist, store>>

\* line 107 raises: open(..., 'wb') has truncated the file and pickle.dump
\* fails before or after it has written part of the pickle
GenerateCurvesDumpError(year) ==
    \E rk \in Rankings(egrid), kind \in {"empty", "partial"} :
        /\ co2_curves' = BuildCurves(rk, fmix_hist)
        /\ ranked' = rk
        /\ store' = [store EXCEPT ![year] = Blob(kind, NoCurves)]
        /\ arg' = Call("generate_curves", year, NoFrame)
        /\ ret' = Raised("OSError")
        /\ UNCHANGED <<egrid, fmix_hist>>

\* lines 110-113 raise for a reason of their own: the BA sheet or the NYISO
\* dataset cannot be read
GenerateCurvesCalibrationError(year) ==
    \E rk \in Rankings(egrid) :
        LET curves == BuildCurves(rk, fmix_hist)
        IN  /\ co2_curves' = curves
            /\ ranked' = rk
            /\ store' = [store EXCEPT ![year] = Blob("full", curves)]
            /\ arg' = Call("generate_curves", year, NoFrame)
            /\ ret' = Raised("OSError")
            /\ UNCHANGED <<egrid, fmix_hist>>

\* a caller's calc_grid_co2_avg(dataframe, year)
CallCalcGridCo2Avg(year, df) ==
    /\ arg' = Call("calc_grid_co2_avg", year, df)
    /\ ret' = calc_grid_co2_avg(df, store[year])
    /\ UNCHANGED <<egrid, fmix_hist, store, co2_curves, ranked>>

Next ==
    \/ \E year \in Years : GenerateCurves(year)
    \/ \E year \in Years : GenerateCurvesReadError(year)
    \/ \E year \in Years : GenerateCurvesOpenError(year)
    \/ \E year \in Years : GenerateCurvesDumpError(year)
    \/ \E year \in Years : GenerateCurvesCalibrationError(year)
    \/ \E year \in Years, df \in Frames : CallCalcGridCo2Avg(year, df)

Spec == Init /\ [][Next]_vars

\* the curve builder alone: generate_curves in each of its outcomes
NextBuilder ==
    \/ \E year \in Years : GenerateCurves(year)
    \/ \E year \in Years : GenerateCurvesReadError(year)
    \/ \E year \in Years : GenerateCurvesOpenError(year)
    \/ \E year \in Years : GenerateCurvesDumpError(year)
    \/ \E year \in Years : GenerateCurvesCalibrationError(year)

SpecBuilder == InitBuilder /\ [][NextBuilder]_vars

\* ---------------------------------------------------------------- claims
Built == DOMAIN co2_curves # {}

Estimated == arg.op = "calc_grid_co2_avg"

\* the rows of category v in record order, as generate_curves selects them
Selected(v) == SelectFuel(egrid_plnt_df(egrid), v)

Peak(v) == nyiso_fmix_max(RollUp(fmix_hist), v)

Point(cum_cap, co2_rate) == [cum_cap |-> cum_cap, co2_rate |-> co2_rate]

\* C1: calc_grid_co2_avg for a year whose blob was never written returns an
\* absent result and logs an error instead of raising.
C1_MissingYearAbsent ==
    (Estimated /\ store[arg.year].kind = "absent")
        => (ret.kind = "none" /\ ret.logged)

ScenarioRows ==
    << [Row(1, "NYIS", 9, 100, "GAS", 400) EXCEPT !.PLFUELCT = "Natural Gas"],
       [Row(2, "NYIS", 5, 50, "GAS", 600) EXCEPT !.PLFUELCT = "Natural Gas"],
       [Row(3, "NYIS", 0, 20, "GAS", 300) EXCEPT !.PLFUELCT = "Natural Gas"] >>

Scenario == Built /\ Selected("Natural Gas") = ScenarioRows /\ Peak("Natural Gas") = 80

\* the (cumulative capacity, blended rate) points before line 103 rescales
PreRescale(v) ==
    LET kept == SelectSeq(ranked[v], LAMBDA r : r.CAPFAC \notin {0, NoCapFac})
    IN  [k \in DOMAIN kept |->
            Point(F(SumTo([j \in DOMAIN kept |-> kept[j].NAMEPCAP], k)),
                  co2_curves[v][k].co2_rate)]

\* C2 as claimed: three Natural Gas plants (0.9, 100, 400), (0.5, 50, 600),
\* (0.0, 20, 300) with an observed peak of 80 MW give the points (100, 400),
\* (150, 480) before rescaling and (80*100/150, 400), (80, 480) after it.
C2_ScenarioAsClaimed ==
    Scenario =>
        /\ Len(co2_curves["Natural Gas"]) = 2
        /\ PreRescale("Natural Gas") = << Point(F(100), F(400)), Point(F(150), F(480)) >>
        /\ co2_curves["Natural Gas"] =
               << Point(Frac(80 * 100, 150), F(400)), Point(F(80), F(480)) >>

\* C2 amended: the second point's rate is (400*100 + 600*50)/150 = 1400/3
\* (466.67), so the points are (100, 400), (150, 1400/3) before rescaling and
\* (80*100/150, 400), (80, 1400/3) after it.
C2_Scenario ==
    Scenario =>
        /\ Len(co2_curves["Natural Gas"]) = 2
        /\ PreRescale("Natural Gas") = << Point(F(100), F(400)), Point(F(150), Frac(1400, 3)) >>
        /\ co2_curves["Natural Gas"] =
               << Point(Frac(80 * 100, 150), F(400)), Point(F(80), Frac(1400, 3)) >>

C2_Witness == Scenario /\ Len(co2_curves["Natural Gas"]) = 2

\* the estimator read a complete curve set and its frame has rows
Looked == Estimated /\ store[arg.year].kind = "full" /\ Len(arg.df.rows) > 0

Unserved(c) ==
    \/ c \notin DOMAIN store[arg.year].curves
    \/ Len(store[arg.year].curves[c]) = 0

\* C3: a lookup for a category without an entry in the curve set, or with an
\* empty curve, makes the estimator fail with a lookup error (KeyError from the
\* dict, ValueError from the interpolation); no rate is produced.
C3_LookupFails ==
    (Looked /\ \E c \in arg.df.columns : Unserved(c))
        => (ret.kind = "raised" /\ ret.exc \in {"KeyError", "ValueError"} /\ ret.out = <<>>)

C3_Witness ==
    /\ Looked
    /\ "Wind" \in arg.df.columns
    /\ ~Unserved("Hydro")
    /\ ret.exc = "KeyError"

C3_WitnessEmptyCurve ==
    /\ Looked
    /\ "Wind" \notin arg.df.columns
    /\ Unserved("Hydro")
    /\ ret.exc = "ValueError"

\* the estimator's contract: the year's curve set is loaded and serves every
\* column of the frame
Served == Estimated /\ store[arg.year].kind = "full"
          /\ \A c \in arg.df.columns : ~Unserved(c)

ZeroTotal(row) == \A c \in DOMAIN row : row[c] = 0

\* C4: a timestamp whose total generation is zero gets a missing value and no
\* error; the estimator still returns one output per input timestamp.
C4_ZeroTotalMissing ==
    Served =>
        /\ ret.kind = "ok"
        /\ Len(ret.out) = Len(arg.df.rows)
        /\ \A i \in DOMAIN arg.df.rows : ZeroTotal(arg.df.rows[i]) => IsNaN(ret.out[i])

C4_Witness ==
    /\ Served
    /\ Len(arg.df.rows) = 2
    /\ ZeroTotal(arg.df.rows[1])
    /\ IsNaN(ret.out[1])
    /\ ~ZeroTotal(arg.df.rows[2])
    /\ ~IsNaN(ret.out[2])

\* C5: where one category alone has generation, the blended rate is that
\* category's interpolated curve value; the other curves have no effect.
C5_SingleCategory ==
    (Estimated /\ ret.kind = "ok") =>
        \A i \in DOMAIN arg.df.rows : \A c \in arg.df.columns :
            LET row == arg.df.rows[i]
            IN  (row[c] > 0 /\ \A o \in arg.df.columns \ {c} : row[o] = 0)
                    => ret.out[i] = CurveInterp(row[c], store[arg.year].curves[c])

CurveMax(curve, m) ==
    /\ \E i \in DOMAIN curve : FEq(curve[i].cum_cap, m)
    /\ \A i \in DOMAIN curve : FLe(curve[i].cum_cap, m)

\* C6: the largest cumulative capacity of every non-empty built curve equals
\* the category's observed peak generation.
C6_DomainEndsAtPeak ==
    \A v \in DOMAIN co2_curves :
        Len(co2_curves[v]) > 0 => CurveMax(co2_curves[v], F(Peak(v)))

\* C7: the cumulative capacities of every built curve are non-decreasing
\* along the stored point sequence.
C7_Monotone ==
    \A v \in DOMAIN co2_curves :
        \A i \in 1..(Len(co2_curves[v]) - 1) :
            FLe(co2_curves[v][i].cum_cap, co2_curves[v][i + 1].cum_cap)

Complete(blob) == blob.kind = "full" /\ DOMAIN blob.curves = Categories

\* C8: an operation that fails leaves every year's persisted curve set as it
\* was or replaced by a complete curve set.
C8_FailureLeavesStoreWhole ==
    [][ret'.kind = "raised" =>
          \A y \in Years : store'[y] = store[y] \/ Complete(store'[y])]_vars

\* the plants of category v that keep a curve point, in ranked order
Kept(v) == SelectSeq(ranked[v], LAMBDA r : r.CAPFAC \notin {0, NoCapFac})

\* C9: point k of a built curve belongs to the k-th ranked plant with a
\* non-zero, non-missing capacity factor, and its rate is the sum of emissions
\* rate x capacity over those plants up to k divided by the sum of their
\* capacities; the other plants contribute to neither sum.
C9_RunningWeightedAverage ==
    \A v \in DOMAIN co2_curves :
        LET co2 == [j \in DOMAIN Kept(v) |-> Kept(v)[j].PLC2ERTA * Kept(v)[j].NAMEPCAP]
            cap == [j \in DOMAIN Kept(v) |-> Kept(v)[j].NAMEPCAP]
        IN  /\ Len(co2_curves[v]) = Len(Kept(v))
            /\ \A k \in DOMAIN co2_curves[v] :
                   /\ co2_curves[v][k].co2_rate = Frac(SumTo(co2, k), SumTo(cap, k))
                   /\ co2_curves[v][k].cum_cap =
                          Frac(SumTo(cap, k) * Peak(v), SumTo(cap, Len(cap)))

C9_Witness ==
    /\ Built
    /\ Len(co2_curves["Natural Gas"]) = 2
    /\ Len(ranked["Natural Gas"]) = 3
    /\ \E i \in 1..3 : ranked["Natural Gas"][i].CAPFAC = NoCapFac
    /\ co2_curves["Natural Gas"][2].co2_rate = Frac(400 * 100 + 600 * 50, 150)

\* the ranking a stable descending sort gives: among the rows with equal
\* CAPFAC the one recorded first comes first
RECURSIVE StableFrom(_, _)
StableFrom(rows, left) ==
    IF left = {} THEN <<>>
    ELSE LET i == CHOOSE k \in NextRanked(rows, left) :
                      \A j \in NextRanked(rows, left) : k <= j
         IN  <<rows[i]>> \o StableFrom(rows, left \ {i})

StableOrder(rows) == StableFrom(rows, DOMAIN rows)

\* C10: plants with equal capacity factor keep their record order in the
\* ranking, so the ranking is a function of the ordered plant records.
C10_StableRanking ==
    \A v \in DOMAIN ranked : ranked[v] = StableOrder(Selected(v))

====
